---- MODULE Spec2Model ----
(***************************************************************************)
(* Order lifecycle and inventory decrement of the Happy Time backend:      *)
(* cart (routes/cartRoutes.js), checkout and cancellation                  *)
(* (routes/orderRoutes.js), admin status update and stock reduction        *)
(* (routes/adminOrderRoutes.js), admin product create and update           *)
(* (routes/productRoutes.js).                                              *)
(*                                                                         *)
(* A request is a slot of req.  The admin status update and the order      *)
(* cancellation are cut at their awaits: one action is one database call   *)
(* together with the synchronous code that follows it up to the next       *)
(* await.  Checkout, cart and product handlers are one action each.  Every *)
(* database or file call may throw.                                        *)
(***************************************************************************)
EXTENDS Integers, Sequences, FiniteSets, TLC

\* ------------------------------------------------------------------ bounds
MaxQty == 2
MaxOrders == 2
MaxFiles == 2
MaxItems == 2
MaxRuns == 2
MaxLines == 2
MaxColors == 2

\* ------------------------------------------------------------ small domains
Customers == {"c1", "c2"}
Products == {"P1", "P2"}
Colors == {"Red", "Blue"}
Prices == {3}
OrderIds == 1..MaxOrders
ApplicationIds == {"a1", "a2"}
Slots == {1, 2}
SeqSlots == {1}

\* An optional number (null, undefined or NaN when absent).
None == {}
Some(n) == {n}
Val(q) == CHOOSE n \in q : TRUE

Max(a, b) == IF a >= b THEN a ELSE b

Min(a, b) == IF a <= b THEN a ELSE b

\* ------------------------------------------------------------------- state
VARIABLES
  products,   \* Product collection: id -> [exists, status, featured, colors]
  orders,     \* Order collection: id -> order document
  nextOrder,  \* next fresh order id
  files,      \* receipt files present in uploads/receipts/
  nextFile,   \* next fresh receipt file name
  cart,       \* customer id -> embedded cart array
  req,        \* slot -> the request being served (or the last one served)
  stockRuns,  \* order id -> reduceProductStock calls made for it (counted to MaxRuns)
  applications, \* Application collection: id -> "none", "pending", "rejected", "stale"
  scheduler   \* the cleanup timer: [started, timers, pc]

vars == <<products, orders, nextOrder, files, nextFile, cart, req, stockRuns,
          applications, scheduler>>

\* --------------------------------------------------------------- documents
NoOrder ==
  [exists |-> FALSE, customer |-> "", items |-> <<>>, totalAmount |-> 0,
   receipt |-> 0, receiptStatus |-> "", status |-> "", adminNotes |-> ""]

NoProduct == [exists |-> FALSE, status |-> "", featured |-> FALSE, colors |-> <<>>]

Idle == [kind |-> "idle", pc |-> "idle", resp |-> 0]

Free(s) == req[s].pc \in {"idle", "done"}

\* new Order({...}) of POST /api/orders
NewOrder(customerId, items, totalAmount, receipt) ==
  [exists |-> TRUE, customer |-> customerId, items |-> items,
   totalAmount |-> totalAmount, receipt |-> receipt,
   receiptStatus |-> "pending", status |-> "pending_payment", adminNotes |-> ""]

\* OrderSchema validation run by order.save()
OrderValid(items, total) ==
  /\ total # None
  /\ \A i \in 1..Len(items) :
       /\ items[i].selectedColor # ""
       /\ items[i].quantity >= 1

\* ------------------------------------------------------------------ inputs
ItemSet(prods, cols, qtys, prices) ==
  [productId : prods, selectedColor : cols, quantity : qtys, price : prices]

ListsOver(S, n) == UNION {[1..k -> S] : k \in 0..n}

\* req.body.items after JSON.parse: a throw, a falsy value, a non-array or an array
ItemsInputs(S) ==
  {[kind |-> k, list |-> <<>>] : k \in {"unparsable", "falsy", "scalar"}}
    \cup {[kind |-> "list", list |-> l] : l \in ListsOver(S, MaxItems)}

CheckoutItems == ItemSet({"P1"}, {"Red"}, {0, MaxQty}, Prices)
\* the declared total: NaN, the sum of one item, the sum of two
CheckoutInputs == ItemsInputs(CheckoutItems)
TotalInputs ==
  {None} \cup {Some(t * MaxQty * p) : t \in {1, 2}, p \in Prices}

\* ---------------------------------------------------------- POST /api/orders
\* The checks before the first await: the response they return, 0 to go on.
PlaceOrderRejectNoFile(itemsIn, hasFile) ==
  IF itemsIn.kind = "unparsable" THEN 400
  ELSE IF itemsIn.kind = "falsy" \/ (itemsIn.kind = "list" /\ Len(itemsIn.list) = 0)
       THEN 400
  ELSE 0

PlaceOrderReject(itemsIn, hasFile) ==
  IF itemsIn.kind = "unparsable" THEN 400
  ELSE IF itemsIn.kind = "falsy" \/ (itemsIn.kind = "list" /\ Len(itemsIn.list) = 0)
       THEN 400
  ELSE IF ~hasFile THEN 400
  ELSE 0

\* What can go wrong after the checks: nothing, order.save() throws, the cart
\* update throws; and then the unlink of the catch block throws as well.
PlaceOutcomes(itemsIn, hasFile) ==
  IF PlaceOrderReject(itemsIn, hasFile) # 0 THEN {"ok"}
  ELSE {"ok", "saveThrows", "clearThrows", "saveAndUnlinkThrow", "clearAndUnlinkThrow"}

\* The whole handler, lines 40-92: multer stores the receipt, the body is
\* checked, order.save(), the cart is cleared, 201; any throw lands in the
\* catch, which unlinks the receipt (if that throws too, no response: -1).
PlaceOrder(s, c, itemsIn, total, hasFile, outcome) ==
  /\ Free(s)
  /\ nextOrder <= MaxOrders
  /\ hasFile => nextFile <= MaxFiles
  /\ LET file == IF hasFile THEN nextFile ELSE 0
         rej == PlaceOrderReject(itemsIn, hasFile)
         saved == /\ rej = 0
                  /\ outcome \notin {"saveThrows", "saveAndUnlinkThrow"}
                  /\ itemsIn.kind = "list" /\ OrderValid(itemsIn.list, total)
         cleared == saved /\ outcome = "ok"
         caught == rej = 0 /\ ~cleared
         unlinkOk == outcome \notin {"saveAndUnlinkThrow", "clearAndUnlinkThrow"}
         resp == IF rej # 0 THEN rej
                 ELSE IF cleared THEN 201
                 ELSE IF file # 0 /\ ~unlinkOk THEN -1
                 ELSE 500
     IN /\ files' = IF hasFile /\ ~(caught /\ unlinkOk)
                    THEN files \cup {file} ELSE files
        /\ nextFile' = IF hasFile THEN nextFile + 1 ELSE nextFile
        /\ orders' = IF saved
                     THEN [orders EXCEPT ![nextOrder] =
                             NewOrder(c, itemsIn.list, Val(total), file)]
                     ELSE orders
        /\ nextOrder' = IF saved THEN nextOrder + 1 ELSE nextOrder
        /\ cart' = IF cleared THEN [cart EXCEPT ![c] = <<>>] ELSE cart
        /\ req' = [req EXCEPT ![s] =
                     [kind |-> "place", pc |-> "done", resp |-> resp,
                      customer |-> c, itemsKind |-> itemsIn.kind,
                      nItems |-> Len(itemsIn.list), file |-> file,
                      order |-> IF saved THEN nextOrder ELSE 0]]
  /\ UNCHANGED <<products, stockRuns, applications, scheduler>>

\* ------------------------------------------------------------ POST /api/cart
\* customer.cart.findIndex(productId and selectedColor match): 0 when none
RECURSIVE FindLineFrom(_, _, _, _)
FindLineFrom(c, productId, selectedColor, i) ==
  IF i > Len(c) THEN 0
  ELSE IF c[i].productId = productId /\ c[i].selectedColor = selectedColor THEN i
  ELSE FindLineFrom(c, productId, selectedColor, i + 1)

FindLine(c, productId, selectedColor) == FindLineFrom(c, productId, selectedColor, 1)

\* the _id mongoose gives a pushed subdocument: fresh within the cart
NewLineId(c) ==
  CHOOSE i \in 1..(Len(c) + 1) :
    /\ \A k \in 1..Len(c) : c[k].id # i
    /\ \A j \in 1..(i - 1) : \E k \in 1..Len(c) : c[k].id = j

AddToCartAlwaysPush(c, productId, selectedColor, quantity) ==
  Append(c, [id |-> NewLineId(c), productId |-> productId,
             selectedColor |-> selectedColor, quantity |-> quantity])

\* lines 54-71: increment the existing line or push a new one
AddToCart(c, productId, selectedColor, quantity) ==
  LET i == FindLine(c, productId, selectedColor)
  IN IF i > 0
     THEN [c EXCEPT ![i].quantity = c[i].quantity + quantity]
     ELSE Append(c, [id |-> NewLineId(c), productId |-> productId,
                     selectedColor |-> selectedColor, quantity |-> quantity])

CartValidAny(c) == TRUE

\* the cart sub-schema of the Customer model, checked by customer.save()
CartValid(c) == \A i \in 1..Len(c) : c[i].quantity >= 1

\* The whole handler: its awaits touch only this customer's document and the
\* product read, and no claim is about two cart requests in flight.
CartAdd(s, cust, productId, selectedColor, quantityIn, dbOk) ==
  /\ Free(s)
  /\ LET quantity == IF quantityIn = None THEN 1 ELSE Val(quantityIn)
         new == AddToCart(cart[cust], productId, selectedColor, quantity)
         resp ==
           IF productId = "" \/ selectedColor = "" THEN 400
           ELSE IF ~dbOk THEN 500
           ELSE IF ~(products[productId].exists /\ products[productId].status = "active")
                THEN 404
           ELSE IF ~CartValid(new) THEN 500
           ELSE 200
     IN /\ (resp = 200) => \A i \in 1..Len(new) : new[i].quantity <= 2 * MaxQty
        /\ cart' = IF resp = 200 THEN [cart EXCEPT ![cust] = new] ELSE cart
        /\ req' = [req EXCEPT ![s] =
                     [kind |-> "cartAdd", pc |-> "done", resp |-> resp,
                      customer |-> cust, productId |-> productId,
                      selectedColor |-> selectedColor, quantity |-> quantity,
                      given |-> quantityIn # None,
                      threw |-> resp = 500 /\ ~dbOk]]
  /\ UNCHANGED <<products, orders, nextOrder, files, nextFile, stockRuns,
               applications, scheduler>>

\* ------------------------------------------------------- PUT /api/cart/:itemId
\* customer.cart.findIndex(item => item._id.toString() === itemId): 0 when none
RECURSIVE FindLineByIdFrom(_, _, _)
FindLineByIdFrom(c, itemId, i) ==
  IF i > Len(c) THEN 0
  ELSE IF c[i].id = itemId THEN i
  ELSE FindLineByIdFrom(c, itemId, i + 1)

FindLineById(c, itemId) == FindLineByIdFrom(c, itemId, 1)

ClampQuantityNone(quantity) == quantity

\* line 113
ClampQuantity(quantity) == Max(1, quantity)

\* lines 112-117; None is a field the body leaves undefined, "" likewise
UpdateLine(line, quantityIn, colorIn) ==
  [line EXCEPT
     !.quantity = IF quantityIn # None THEN ClampQuantity(Val(quantityIn)) ELSE @,
     !.selectedColor = IF colorIn # "" THEN colorIn ELSE @]

\* The whole handler, lines 91-127.
CartUpdate(s, cust, itemId, quantityIn, colorIn, dbOk) ==
  /\ Free(s)
  /\ LET c == cart[cust]
         i == FindLineById(c, itemId)
         new == IF i = 0 THEN c ELSE [c EXCEPT ![i] = UpdateLine(c[i], quantityIn, colorIn)]
         resp == IF ~dbOk THEN 500
                 ELSE IF i = 0 THEN 404
                 ELSE IF ~CartValid(new) THEN 500
                 ELSE 200
     IN /\ cart' = IF resp = 200 THEN [cart EXCEPT ![cust] = new] ELSE cart
        /\ req' = [req EXCEPT ![s] =
                     [kind |-> "cartUpdate", pc |-> "done", resp |-> resp,
                      customer |-> cust, itemId |-> itemId,
                      quantityIn |-> quantityIn, colorIn |-> colorIn,
                      dbOk |-> dbOk]]
  /\ UNCHANGED <<products, orders, nextOrder, files, nextFile, stockRuns,
               applications, scheduler>>

\* ---------------------------------------------------- DELETE /api/cart/:itemId
\* customer.cart.filter(item => item._id.toString() !== itemId), lines 145-147
RemoveLine(c, itemId) == SelectSeq(c, LAMBDA line : line.id # itemId)

\* The whole handler, lines 132-159.
CartRemove(s, cust, itemId, dbOk) ==
  /\ Free(s)
  /\ LET c == cart[cust]
         new == RemoveLine(c, itemId)
         resp == IF ~dbOk THEN 500
                 ELSE IF Len(new) = Len(c) THEN 404
                 ELSE IF ~CartValid(new) THEN 500
                 ELSE 200
     IN /\ cart' = IF resp = 200 THEN [cart EXCEPT ![cust] = new] ELSE cart
        /\ req' = [req EXCEPT ![s] =
                     [kind |-> "cartRemove", pc |-> "done", resp |-> resp,
                      customer |-> cust, itemId |-> itemId]]
  /\ UNCHANGED <<products, orders, nextOrder, files, nextFile, stockRuns,
               applications, scheduler>>

\* ---------------------------------------------------- DELETE /api/orders/:id
CancelAllowedAlways(order) == TRUE

\* line 160
CancelAllowed(order) == order.status = "pending_payment"

OrderFoundById(order, cust) == order.exists

\* lines 151-154: the filter { _id: req.params.id, customer: req.user.id }
OrderFound(order, cust) == order.exists /\ order.customer = cust

\* await Order.findOne({ _id, customer }) and the two checks after it
CancelFind(s, cust, o, dbOk) ==
  /\ Free(s)
  /\ LET order == orders[o]
         resp == IF ~dbOk THEN 500
                 ELSE IF ~OrderFound(order, cust) THEN 404
                 ELSE IF ~CancelAllowed(order) THEN 400
                 ELSE 0
     IN req' = [req EXCEPT ![s] =
                  [kind |-> "cancel", pc |-> IF resp = 0 THEN "delete" ELSE "done",
                   resp |-> resp, customer |-> cust, order |-> o,
                   receipt |-> IF dbOk THEN order.receipt ELSE 0,
                   seen |-> IF dbOk THEN order.status ELSE ""]]
  /\ UNCHANGED <<products, orders, nextOrder, files, nextFile, cart, stockRuns,
               applications, scheduler>>

\* await Order.findByIdAndDelete(id), then the synchronous receipt cleanup
CancelDelete(s, dbOk, unlinkOk) ==
  /\ req[s].kind = "cancel" /\ req[s].pc = "delete"
  /\ LET o == req[s].order
         f == req[s].receipt
         mustUnlink == f # 0 /\ f \in files
     IN IF ~dbOk
        THEN /\ req' = [req EXCEPT ![s].pc = "done", ![s].resp = 500]
             /\ UNCHANGED <<orders, files>>
        ELSE /\ orders' = [orders EXCEPT ![o] = NoOrder]
             /\ files' = IF mustUnlink /\ unlinkOk THEN files \ {f} ELSE files
             /\ req' = [req EXCEPT ![s].pc = "done",
                           ![s].resp = IF mustUnlink /\ ~unlinkOk THEN 500 ELSE 200]
  /\ UNCHANGED <<products, nextOrder, nextFile, cart, stockRuns, applications, scheduler>>

\* --------------------------------------------- PUT /api/admin/orders/:id/status
validStatuses ==
  {"pending_payment", "processing", "confirmed", "shipped", "delivered", "cancelled"}
validReceiptStatuses == {"pending", "verified", "rejected"}

UpdRejectStatusOnly(status, receiptStatus) ==
  IF status # "" /\ status \notin validStatuses THEN 400 ELSE 0

\* lines 88-94; "" is a field the body does not supply
UpdReject(status, receiptStatus) ==
  IF status # "" /\ status \notin validStatuses THEN 400
  ELSE IF receiptStatus # "" /\ receiptStatus \notin validReceiptStatuses THEN 400
  ELSE 0

ApplyUpdateWhole(order, status, receiptStatus, adminNotes) ==
  [order EXCEPT !.status = status, !.receiptStatus = receiptStatus,
                !.adminNotes = adminNotes]

\* the update document of lines 104-108 applied to the stored order
ApplyUpdate(order, status, receiptStatus, adminNotes) ==
  [order EXCEPT
     !.status = IF status # "" THEN status ELSE @,
     !.receiptStatus = IF receiptStatus # "" THEN receiptStatus ELSE @,
     !.adminNotes = IF adminNotes # "" THEN adminNotes ELSE @]

ShouldReduceStockUnguarded(receiptStatus, current) == receiptStatus = "verified"

\* line 118
ShouldReduceStock(receiptStatus, current) ==
  receiptStatus = "verified" /\ current # "verified"

\* product.colors.findIndex(color => color.name === selectedColor): 0 when none
RECURSIVE FindColorFrom(_, _, _)
FindColorFrom(colors, name, i) ==
  IF i > Len(colors) THEN 0
  ELSE IF colors[i].name = name THEN i
  ELSE FindColorFrom(colors, name, i + 1)

FindColor(colors, name) == FindColorFrom(colors, name, 1)

NewQuantityNoFloor(old, quantity) == old - quantity

\* line 63
NewQuantity(old, quantity) == Max(0, old - quantity)

\* { [`colors.${colorIndex}.quantity`]: newQuantity }: MongoDB pads a shorter
\* array with nulls up to the position it sets
NullColor == [name |-> "", quantity |-> None]

SetColorQuantity(colors, idx, q) ==
  [i \in 1..Max(Len(colors), idx) |->
     IF i = idx
     THEN [name |-> IF i <= Len(colors) THEN colors[i].name ELSE "",
           quantity |-> Some(q)]
     ELSE IF i <= Len(colors) THEN colors[i] ELSE NullColor]

\* One callback of items.map: it runs to its first await at once (lines 49-51;
\* a populated productId is null when the product is gone).
InitTask(item) ==
  [item |-> item,
   pc |-> IF ~products[item.productId].exists \/ item.selectedColor = ""
             \/ item.quantity <= 0
          THEN "done" ELSE "find",
   idx |-> 0, newQuantity |-> 0]

Terminal(task) == task.pc \in {"done", "failed"}
AllTerminal(tasks) == \A i \in 1..Len(tasks) : Terminal(tasks[i])
AnyFailed(tasks) == \E i \in 1..Len(tasks) : tasks[i].pc = "failed"

CallbackRunsUntilFailure(tasks, i, pc) == tasks[i].pc = pc /\ ~AnyFailed(tasks)

\* lines 48 and 76: every callback of items.map is a promise of its own, and
\* Promise.all cancels none of them: a callback stands at its await until
\* that await returns, whatever became of the others
CallbackRuns(tasks, i, pc) == tasks[i].pc = pc

StockResponseEscalates(failed) == IF failed THEN 500 ELSE 200

\* lines 119-132: the catch swallows a rejected Promise.all
StockResponse(failed) == 200

\* await Order.findById(id), after the validation of the body
UpdFind(s, o, status, receiptStatus, adminNotes, dbOk) ==
  /\ Free(s)
  /\ LET rej == UpdReject(status, receiptStatus)
         resp == IF rej # 0 THEN rej
                 ELSE IF ~dbOk THEN 500
                 ELSE IF ~orders[o].exists THEN 404
                 ELSE 0
     IN req' = [req EXCEPT ![s] =
                  [kind |-> "update", pc |-> IF resp = 0 THEN "write" ELSE "done",
                   resp |-> resp, order |-> o, status |-> status,
                   receiptStatus |-> receiptStatus, adminNotes |-> adminNotes,
                   current |-> IF resp = 0 THEN orders[o].receiptStatus ELSE "",
                   wrote |-> FALSE, tasks |-> <<>>]]
  /\ UNCHANGED <<products, orders, nextOrder, files, nextFile, cart, stockRuns,
               applications, scheduler>>

\* await Order.findByIdAndUpdate(...).populate(...).populate(...), then the
\* guard of line 118 and the synchronous start of reduceProductStock.
\* outcome: "ok", "throw" (nothing written) or "populateThrow" (written, then
\* a populate query threw).
UpdWrite(s, outcome) ==
  /\ req[s].kind = "update" /\ req[s].pc = "write"
  /\ LET r == req[s]
         o == r.order
         updated == ApplyUpdate(orders[o], r.status, r.receiptStatus, r.adminNotes)
         tasks == [i \in 1..Len(updated.items) |-> InitTask(updated.items[i])]
     IN IF outcome = "throw"
        THEN /\ req' = [req EXCEPT ![s].pc = "done", ![s].resp = 500]
             /\ UNCHANGED <<orders, stockRuns>>
        ELSE IF ~orders[o].exists
        THEN /\ req' = [req EXCEPT ![s].pc = "done", ![s].resp = 404]
             /\ UNCHANGED <<orders, stockRuns>>
        ELSE IF outcome = "populateThrow"
        THEN /\ orders' = [orders EXCEPT ![o] = updated]
             /\ req' = [req EXCEPT ![s].pc = "done", ![s].resp = 500]
             /\ UNCHANGED stockRuns
        ELSE IF ShouldReduceStock(r.receiptStatus, r.current)
        THEN /\ orders' = [orders EXCEPT ![o] = updated]
             /\ stockRuns' = [stockRuns EXCEPT ![o] = Min(@ + 1, MaxRuns)]
             /\ req' = [req EXCEPT
                          ![s].wrote = TRUE,
                          ![s].status = "", ![s].adminNotes = "",
                          ![s].tasks = tasks,
                          ![s].pc = IF AllTerminal(tasks) THEN "done" ELSE "stock",
                          ![s].resp = IF AllTerminal(tasks)
                                      THEN StockResponse(FALSE) ELSE 0]
        ELSE /\ orders' = [orders EXCEPT ![o] = updated]
             /\ req' = [req EXCEPT ![s].wrote = TRUE, ![s].pc = "done",
                                   ![s].status = "", ![s].adminNotes = "",
                                   ![s].resp = 200]
             /\ UNCHANGED stockRuns
  /\ UNCHANGED <<products, nextOrder, files, nextFile, cart, applications, scheduler>>

\* Promise.all settles on the first rejection or when every callback is done:
\* the handler then responds, while the other callbacks keep running.
Settle(s, tasks) ==
  req' = [req EXCEPT
            ![s].tasks = tasks,
            ![s].pc = IF AllTerminal(tasks) THEN "done" ELSE "stock",
            ![s].resp = IF req[s].resp # 0 THEN req[s].resp
                        ELSE IF AnyFailed(tasks) THEN StockResponse(TRUE)
                        ELSE IF AllTerminal(tasks) THEN StockResponse(FALSE)
                        ELSE 0]

\* await Product.findById(item.productId), lines 54-63
StockFind(s, i, dbOk) ==
  /\ req[s].kind = "update" /\ req[s].pc = "stock"
  /\ i \in 1..Len(req[s].tasks)
  /\ CallbackRuns(req[s].tasks, i, "find")
  /\ LET task == req[s].tasks[i]
         product == products[task.item.productId]
         idx == FindColor(product.colors, task.item.selectedColor)
         next ==
           IF ~dbOk THEN [task EXCEPT !.pc = "failed"]
           ELSE IF ~product.exists THEN [task EXCEPT !.pc = "done"]
           ELSE IF idx # 0 /\ product.colors[idx].quantity # None
           THEN [task EXCEPT
                   !.pc = "write", !.idx = idx,
                   !.newQuantity = NewQuantity(Val(product.colors[idx].quantity),
                                               task.item.quantity)]
           ELSE [task EXCEPT !.pc = "done"]
     IN Settle(s, [req[s].tasks EXCEPT ![i] = next])
  /\ UNCHANGED <<products, orders, nextOrder, files, nextFile, cart, stockRuns,
               applications, scheduler>>

\* await Product.findByIdAndUpdate(item.productId, {colors.<idx>.quantity}), lines 66-70
StockWrite(s, i, dbOk) ==
  /\ req[s].kind = "update" /\ req[s].pc = "stock"
  /\ i \in 1..Len(req[s].tasks)
  /\ CallbackRuns(req[s].tasks, i, "write")
  /\ LET task == req[s].tasks[i]
         p == task.item.productId
     IN /\ products' =
             IF dbOk /\ products[p].exists
             THEN [products EXCEPT ![p].colors =
                     SetColorQuantity(@, task.idx, task.newQuantity)]
             ELSE products
        /\ Settle(s, [req[s].tasks EXCEPT
                        ![i].pc = IF dbOk THEN "done" ELSE "failed",
                        ![i].idx = 0, ![i].newQuantity = 0])
  /\ UNCHANGED <<orders, nextOrder, files, nextFile, cart, stockRuns,
               applications, scheduler>>

\* ------------------------------------------- POST and PUT /api/products
\* A submitted quantity: absent, a string that is not a number, a string that
\* is an integer, or (in a JSON array) a number.
QuantityField(kind, n) == [kind |-> kind, n |-> n]

\* lines 139-144: quantityStr && typeof quantityStr === 'string' &&
\* !isNaN(quantityStr) && quantityStr.trim() !== '' ? parseInt(quantityStr) : null
ParseQuantityIndexed(q) == IF q.kind = "numeric" THEN Some(q.n) ELSE None

\* lines 156-158: color.quantity && !isNaN(color.quantity) ? parseInt(...) : null
ParseQuantityArray(q) ==
  IF q.kind = "numeric" THEN Some(q.n)
  ELSE IF q.kind = "number" /\ q.n # 0 THEN Some(q.n)
  ELSE None

\* the entries with a non-blank name, each with its parsed quantity
ParseColorList(list, indexed) ==
  LET kept == SelectSeq(list, LAMBDA c : c.name # "")
  IN [i \in 1..Len(kept) |->
        [name |-> kept[i].name,
         quantity |-> IF indexed THEN ParseQuantityIndexed(kept[i].quantity)
                      ELSE ParseQuantityArray(kept[i].quantity)]]

\* lines 125-183: the colors[i][name] fields first, body.colors as an array
\* only when those gave nothing
parseColors(body) ==
  IF body.format = "indexed" THEN ParseColorList(body.colors, TRUE)
  ELSE IF body.format = "array" THEN ParseColorList(body.colors, FALSE)
  ELSE <<>>

\* ProductSchema.colors: quantity min 0, run by Product.create
ColorsValid(colors) ==
  \A i \in 1..Len(colors) :
    colors[i].quantity = None \/ Val(colors[i].quantity) >= 0

\* line 118: the most products that may carry featured = true
FeaturedLimit == 4

\* Product.countDocuments({ featured: true })
FeaturedCount ==
  Cardinality({p \in DOMAIN products : products[p].exists /\ products[p].featured})

\* lines 105-122, TRUE when it returns without throwing: featuredCount is what
\* countDocuments gave, currentIsFeatured what findById(editingId) gave (FALSE
\* when there is no editingId or no such product)
validateFeaturedLimit(isFeatured, featuredCount, currentIsFeatured) ==
  isFeatured =>
    (IF currentIsFeatured THEN featuredCount - 1 ELSE featuredCount) < FeaturedLimit

NewProductId == CHOOSE p \in DOMAIN products : ~products[p].exists

\* router.post('/') up to Product.create: the response of an early return or
\* of the catch, 0 to go on
ProductCreateReject(bodyOk, colors, isFeatured, dbOk) ==
  IF ~bodyOk THEN 400
  ELSE IF Len(colors) = 0 THEN 400
  ELSE IF ~dbOk THEN 500
  ELSE IF ~validateFeaturedLimit(isFeatured, FeaturedCount, FALSE) THEN 400
  ELSE 0

\* The whole handler of router.post('/'): the required fields (bodyOk), the
\* colours, the featured limit, the uploads and Product.create with its
\* validation.
ProductCreate(s, bodyOk, body, isFeatured, dbOk) ==
  /\ Free(s)
  /\ \E p \in DOMAIN products : ~products[p].exists
  /\ LET colors == parseColors(body)
         rej == ProductCreateReject(bodyOk, colors, isFeatured, dbOk)
         resp == IF rej # 0 THEN rej
                 ELSE IF ~ColorsValid(colors) THEN 500
                 ELSE 201
     IN /\ products' =
             IF resp = 201
             THEN [products EXCEPT ![NewProductId] =
                     [exists |-> TRUE, status |-> "active",
                      featured |-> isFeatured, colors |-> colors]]
             ELSE products
        /\ req' = [req EXCEPT ![s] =
                     [kind |-> "productCreate", pc |-> "done", resp |-> resp]]
  /\ UNCHANGED <<orders, nextOrder, files, nextFile, cart, stockRuns,
                 applications, scheduler>>

\* router.put('/:id') up to the last write: the response of an early return
\* or of the catch, 0 to go on
ProductUpdateReject(p, typeOk, colors, isFeatured, dbOk) ==
  IF ~dbOk THEN 500
  ELSE IF ~products[p].exists THEN 404
  ELSE IF ~typeOk THEN 400
  ELSE IF Len(colors) = 0 THEN 400
  ELSE IF ~validateFeaturedLimit(isFeatured, FeaturedCount, products[p].featured)
       THEN 400
  ELSE 0

\* The whole handler of router.put('/:id'): Product.findById, the product
\* type and gender checks (typeOk), the colours, the featured limit, and
\* Product.findByIdAndUpdate(id, updateData, { new: true }), which runs no
\* schema validator.
ProductUpdate(s, p, typeOk, body, isFeatured, dbOk) ==
  /\ Free(s)
  /\ LET colors == parseColors(body)
         rej == ProductUpdateReject(p, typeOk, colors, isFeatured, dbOk)
         resp == IF rej # 0 THEN rej ELSE 200
     IN /\ products' = IF resp = 200
                       THEN [products EXCEPT ![p].colors = colors,
                                             ![p].featured = isFeatured]
                       ELSE products
        /\ req' = [req EXCEPT ![s] =
                     [kind |-> "productUpdate", pc |-> "done", resp |-> resp,
                      product |-> p]]
  /\ UNCHANGED <<orders, nextOrder, files, nextFile, cart, stockRuns,
                 applications, scheduler>>

\* The same two handlers cut at the await that separates the featured check
\* from the write, for requests served at the same time.
\* POST: everything up to validateFeaturedLimit (line 380)
ProductCreateCheck(s, bodyOk, body, isFeatured, dbOk) ==
  /\ Free(s)
  /\ LET colors == parseColors(body)
         rej == ProductCreateReject(bodyOk, colors, isFeatured, dbOk)
     IN req' = [req EXCEPT ![s] =
                  [kind |-> "productPost", pc |-> IF rej = 0 THEN "write" ELSE "done",
                   resp |-> rej, product |-> "", colors |-> colors,
                   featured |-> isFeatured]]
  /\ UNCHANGED <<products, orders, nextOrder, files, nextFile, cart, stockRuns,
                 applications, scheduler>>

\* POST: the uploads and Product.create (lines 382-415)
ProductCreateWrite(s, dbOk) ==
  /\ req[s].kind = "productPost" /\ req[s].pc = "write"
  /\ \E p \in DOMAIN products : ~products[p].exists
  /\ LET r == req[s]
         resp == IF ~dbOk \/ ~ColorsValid(r.colors) THEN 500 ELSE 201
     IN /\ products' =
             IF resp = 201
             THEN [products EXCEPT ![NewProductId] =
                     [exists |-> TRUE, status |-> "active",
                      featured |-> r.featured, colors |-> r.colors]]
             ELSE products
        /\ req' = [req EXCEPT ![s].pc = "done", ![s].resp = resp,
                              ![s].product = IF resp = 201 THEN NewProductId ELSE ""]
  /\ UNCHANGED <<orders, nextOrder, files, nextFile, cart, stockRuns,
                 applications, scheduler>>

\* PUT: everything up to validateFeaturedLimit (line 492)
ProductUpdateCheck(s, p, typeOk, body, isFeatured, dbOk) ==
  /\ Free(s)
  /\ LET colors == parseColors(body)
         rej == ProductUpdateReject(p, typeOk, colors, isFeatured, dbOk)
     IN req' = [req EXCEPT ![s] =
                  [kind |-> "productPut", pc |-> IF rej = 0 THEN "write" ELSE "done",
                   resp |-> rej, product |-> p, colors |-> colors,
                   featured |-> isFeatured]]
  /\ UNCHANGED <<products, orders, nextOrder, files, nextFile, cart, stockRuns,
                 applications, scheduler>>

\* PUT: the uploads and Product.findByIdAndUpdate(id, updateData) (lines
\* 494-541); a product deleted in between is left alone and the answer is
\* still 200
ProductUpdateWrite(s, dbOk) ==
  /\ req[s].kind = "productPut" /\ req[s].pc = "write"
  /\ LET r == req[s]
     IN /\ products' =
             IF dbOk /\ products[r.product].exists
             THEN [products EXCEPT ![r.product].colors = r.colors,
                                   ![r.product].featured = r.featured]
             ELSE products
        /\ req' = [req EXCEPT ![s].pc = "done",
                              ![s].resp = IF dbOk THEN 200 ELSE 500]
  /\ UNCHANGED <<orders, nextOrder, files, nextFile, cart, stockRuns,
                 applications, scheduler>>

\* ------------------------------------------ applications and their cleanup
\* applicationRoutes.js router.post('/'): a new application is stored as pending
ApplicationSubmit(s, a, dbOk) ==
  /\ Free(s)
  /\ applications[a] = "none"
  /\ applications' = IF dbOk THEN [applications EXCEPT ![a] = "pending"]
                     ELSE applications
  /\ req' = [req EXCEPT ![s] =
               [kind |-> "apply", pc |-> "done", resp |-> IF dbOk THEN 201 ELSE 500]]
  /\ UNCHANGED <<products, orders, nextOrder, files, nextFile, cart, stockRuns,
                 scheduler>>

validApplicationStatuses == {"pending", "reviewing", "shortlisted", "rejected", "hired"}

\* adminApplicationRoutes.js router.put('/:id/status'): the write also renews
\* updatedAt, so a rejection set now is a fresh one
ApplicationSetStatus(s, a, status, dbOk) ==
  /\ Free(s)
  /\ LET resp == IF status \notin validApplicationStatuses THEN 400
                 ELSE IF ~dbOk THEN 500
                 ELSE IF applications[a] = "none" THEN 404
                 ELSE 200
     IN /\ applications' = IF resp = 200 THEN [applications EXCEPT ![a] = status]
                           ELSE applications
        /\ req' = [req EXCEPT ![s] =
                     [kind |-> "applicationStatus", pc |-> "done", resp |-> resp]]
  /\ UNCHANGED <<products, orders, nextOrder, files, nextFile, cart, stockRuns,
                 scheduler>>

\* thirty days go by on a rejected application: its updatedAt is now before
\* thirtyDaysAgo (cleanup.js lines 7-12)
ApplicationAges(a) ==
  /\ applications[a] = "rejected"
  /\ applications' = [applications EXCEPT ![a] = "stale"]
  /\ UNCHANGED <<products, orders, nextOrder, files, nextFile, cart, req, stockRuns,
                 scheduler>>

\* Application.deleteMany({ status: 'rejected', updatedAt: { $lt: thirtyDaysAgo } })
DeleteStale(apps) == [a \in DOMAIN apps |-> IF apps[a] = "stale" THEN "none" ELSE apps[a]]

\* server.js GET /test-cleanup: cleanupRejectedApplications run by hand
TestCleanup(s, dbOk) ==
  /\ Free(s)
  /\ applications' = IF dbOk THEN DeleteStale(applications) ELSE applications
  /\ req' = [req EXCEPT ![s] =
               [kind |-> "testCleanup", pc |-> "done", resp |-> IF dbOk THEN 200 ELSE 500]]
  /\ UNCHANGED <<products, orders, nextOrder, files, nextFile, cart, stockRuns,
                 scheduler>>

\* scheduleDailyCleanup, lines 24-41: one setTimeout for the next 2 AM
scheduleDailyCleanup(sch) == [sch EXCEPT !.timers = @ + 1]

\* startServer: the database is connected, the server listens, the first
\* timer is set (server.js line 242)
StartServer ==
  /\ ~scheduler.started
  /\ scheduler' = scheduleDailyCleanup([scheduler EXCEPT !.started = TRUE])
  /\ UNCHANGED <<products, orders, nextOrder, files, nextFile, cart, req, stockRuns,
                 applications>>

\* the timer goes off: its callback calls cleanupRejectedApplications, which
\* runs up to the await of deleteMany
TimerFires ==
  /\ scheduler.timers > 0
  /\ scheduler.pc # "running"
  /\ scheduler' = [scheduler EXCEPT !.timers = @ - 1, !.pc = "running"]
  /\ UNCHANGED <<products, orders, nextOrder, files, nextFile, cart, req, stockRuns,
                 applications>>

\* deleteMany returns: on success the callback goes on to line 39 and sets
\* the next timer; on an error cleanupRejectedApplications rethrows (line 19),
\* the await of line 37 throws and the callback ends there, its rejection
\* handled by no one
CleanupRun(dbOk) ==
  /\ scheduler.pc = "running"
  /\ IF dbOk
     THEN /\ applications' = DeleteStale(applications)
          /\ scheduler' = scheduleDailyCleanup([scheduler EXCEPT !.pc = "idle"])
     ELSE /\ applications' = applications
          /\ scheduler' = [scheduler EXCEPT !.pc = "failed"]
  /\ UNCHANGED <<products, orders, nextOrder, files, nextFile, cart, req, stockRuns>>

\* ----------------------------------------------------------- specifications
\* the job applications and the cleanup timer before the server has started
NoApplications == [a \in ApplicationIds |-> "none"]

SchedulerDown == [started |-> FALSE, timers |-> 0, pc |-> "idle"]

InitProducts ==
  [p \in Products |->
     IF p = "P1"
     THEN [exists |-> TRUE, status |-> "active", featured |-> FALSE,
           colors |-> <<[name |-> "Red", quantity |-> Some(MaxQty)],
                        [name |-> "Blue", quantity |-> None]>>]
     ELSE NoProduct]

\* The store after deployment: a catalogue, no orders, empty carts.
Init ==
  /\ products = InitProducts
  /\ orders = [o \in OrderIds |-> NoOrder]
  /\ nextOrder = 1
  /\ files = {}
  /\ nextFile = 1
  /\ cart = [c \in Customers |-> <<>>]
  /\ req = [s \in Slots |-> Idle]
  /\ stockRuns = [o \in OrderIds |-> 0]
  /\ applications = NoApplications
  /\ scheduler = SchedulerDown

CartQuantityInputs == {None} \cup {Some(q) : q \in 0..MaxQty}

\* Checkout, cancellation and cart, one request at a time.
Next ==
  \E s \in SeqSlots :
    \/ \E c \in Customers, itemsIn \in CheckoutInputs, hasFile \in BOOLEAN :
         \E total \in IF PlaceOrderReject(itemsIn, hasFile) # 0
                       THEN {None} ELSE TotalInputs,
            outcome \in PlaceOutcomes(itemsIn, hasFile) :
           PlaceOrder(s, c, itemsIn, total, hasFile, outcome)
    \/ \E c \in Customers, dbOk \in BOOLEAN :
         CartAdd(s, c, "P1", "Red", Some(2 * MaxQty), dbOk)
    \/ \E c \in Customers, o \in OrderIds, dbOk \in BOOLEAN : CancelFind(s, c, o, dbOk)
    \/ \E dbOk \in BOOLEAN, unlinkOk \in BOOLEAN : CancelDelete(s, dbOk, unlinkOk)

Spec == Init /\ [][Next]_vars

\* Cart handlers with every input, and a checkout that clears the cart.
CartNext ==
  \E s \in SeqSlots :
    \/ \E p \in Products \cup {""}, col \in Colors \cup {""},
          q \in CartQuantityInputs, dbOk \in BOOLEAN :
         CartAdd(s, "c1", p, col, q, dbOk)
    \/ \E c \in Customers, outcome \in {"ok", "clearThrows"} :
         PlaceOrder(s, c, [kind |-> "list",
                           list |-> <<[productId |-> "P1", selectedColor |-> "Red",
                                       quantity |-> 1, price |-> 1]>>],
                    Some(1), TRUE, outcome)

CartSpec == Init /\ [][CartNext]_vars

\* ---- the admin's side: orders already placed
AdminItems ==
  ItemSet({"P1"}, {"Red"}, 1..MaxQty, {1})
    \cup ItemSet({"P1"}, {"Blue"}, {1}, {1})
    \cup ItemSet({"P2"}, {"Red"}, {1}, {1})

\* one item of any kind, or several that draw on the tracked colour
AdminItemLists ==
  {<<i>> : i \in AdminItems}
    \cup (ListsOver(ItemSet({"P1"}, {"Red"}, 1..MaxQty, {1}), MaxItems) \ {<<>>})

RECURSIVE OrderSumTo(_, _)
OrderSumTo(items, n) ==
  IF n = 0 THEN 0 ELSE items[n].price * items[n].quantity + OrderSumTo(items, n - 1)

OrderSum(items) == OrderSumTo(items, Len(items))

\* order 1 placed by c1 with its receipt stored, nothing else
InitAdmin ==
  /\ products = InitProducts
  /\ \E items \in AdminItemLists :
       orders = [o \in OrderIds |->
                   IF o = 1 THEN NewOrder("c1", items, OrderSum(items), 1)
                   ELSE NoOrder]
  /\ nextOrder = 2
  /\ files = {1}
  /\ nextFile = 2
  /\ cart = [c \in Customers |-> <<>>]
  /\ req = [s \in Slots |-> Idle]
  /\ stockRuns = [o \in OrderIds |-> 0]
  /\ applications = NoApplications
  /\ scheduler = SchedulerDown

StatusInputs == {"", "processing", "bogus"}
ReceiptInputs == {"", "verified", "rejected", "bogus"}
NotesInputs == {"", "checked"}

AdminActions(s, statuses, receipts, notes, oks) ==
  \/ \E o \in OrderIds, st \in statuses, rs \in receipts, n \in notes, dbOk \in oks :
       UpdFind(s, o, st, rs, n, dbOk)
  \/ \E outcome \in {"ok"} \cup (IF FALSE \in oks THEN {"throw", "populateThrow"} ELSE {}) :
       UpdWrite(s, outcome)
  \/ \E i \in 1..MaxItems + 1, dbOk \in oks : StockFind(s, i, dbOk)
  \/ \E i \in 1..MaxItems + 1, dbOk \in oks : StockWrite(s, i, dbOk)
  \/ \E c \in Customers, o \in OrderIds, dbOk \in oks : CancelFind(s, c, o, dbOk)
  \/ \E dbOk \in oks, unlinkOk \in oks : CancelDelete(s, dbOk, unlinkOk)

\* Admin status updates and cancellations, one request at a time.
AdminNext ==
  \E s \in SeqSlots : AdminActions(s, StatusInputs, ReceiptInputs, NotesInputs, BOOLEAN)

AdminSpec == InitAdmin /\ [][AdminNext]_vars

\* ---- two admin or customer requests in flight at once
RaceItemLists == {<<i>> : i \in ItemSet({"P1"}, {"Red"}, 1..MaxQty, {1})}

\* orders 1 and 2 placed by c1, each for the tracked colour
InitRace ==
  /\ products = InitProducts
  /\ \E l1 \in RaceItemLists, l2 \in RaceItemLists :
       orders = [o \in OrderIds |->
                   IF o = 1 THEN NewOrder("c1", l1, OrderSum(l1), 1)
                   ELSE IF o = 2 THEN NewOrder("c1", l2, OrderSum(l2), 2)
                   ELSE NoOrder]
  /\ nextOrder = 3
  /\ files = {1, 2}
  /\ nextFile = 3
  /\ cart = [c \in Customers |-> <<>>]
  /\ req = [s \in Slots |-> Idle]
  /\ stockRuns = [o \in OrderIds |-> 0]
  /\ applications = NoApplications
  /\ scheduler = SchedulerDown

RaceNext ==
  \E s \in Slots : AdminActions(s, {""}, {"verified"}, {""}, {TRUE})

RaceSpec == InitRace /\ [][RaceNext]_vars

\* ---- a cancellation racing with admin updates of the same orders
CancelRaceNext ==
  \E s \in Slots : AdminActions(s, {"processing"}, {"", "verified"}, {""}, {TRUE})

CancelRaceSpec == InitRace /\ [][CancelRaceNext]_vars

\* ---- the cart handlers, with quantities of either sign, one request at a time
EditQuantityInputs == {None, Some(-1), Some(0), Some(MaxQty)}

CartEditNext ==
  \E s \in SeqSlots :
    \/ \E col \in Colors \cup {""}, q \in EditQuantityInputs, dbOk \in BOOLEAN :
         /\ Len(cart["c1"]) < MaxLines
         /\ CartAdd(s, "c1", "P1", col, q, dbOk)
    \/ \E id \in 1..(MaxLines + 1), q \in EditQuantityInputs,
          col \in Colors \cup {""}, dbOk \in BOOLEAN :
         CartUpdate(s, "c1", id, q, col, dbOk)
    \/ \E id \in 1..(MaxLines + 1), dbOk \in BOOLEAN : CartRemove(s, "c1", id, dbOk)

CartEditSpec == Init /\ [][CartEditNext]_vars

\* ---- the catalogue: admin product create and update, and stock passes
QuantityFields ==
  {QuantityField("absent", 0), QuantityField("text", 0), QuantityField("number", 0)}
    \cup {QuantityField("numeric", n) : n \in {-1, 0, MaxQty}}

ColorFields == [name : {"", "Red"}, quantity : QuantityFields]

\* the fields that fill a longer list: a blank name, an untracked colour, a
\* negative quantity
FillerFields ==
  {[name |-> "", quantity |-> QuantityField("absent", 0)],
   [name |-> "Red", quantity |-> QuantityField("absent", 0)],
   [name |-> "Red", quantity |-> QuantityField("numeric", -1)]}

ColorLists ==
  {<<c>> : c \in ColorFields} \cup (ListsOver(FillerFields, MaxColors) \ {<<>>})

ProductBodies ==
  {[format |-> "none", colors |-> <<>>]}
    \cup {[format |-> f, colors |-> l] : f \in {"indexed", "array"}, l \in ColorLists}

\* order 1 asks for one unit of the tracked colour
InitCatalog ==
  /\ InitAdmin
  /\ orders[1].items =
       <<[productId |-> "P1", selectedColor |-> "Red", quantity |-> 1, price |-> 1]>>

CatalogNext ==
  \E s \in SeqSlots :
    \/ \E bodyOk \in BOOLEAN, body \in ProductBodies, dbOk \in BOOLEAN :
         ProductCreate(s, bodyOk, body, FALSE, dbOk)
    \/ \E p \in Products, typeOk \in BOOLEAN, body \in ProductBodies, dbOk \in BOOLEAN :
         ProductUpdate(s, p, typeOk, body, FALSE, dbOk)
    \/ AdminActions(s, {""}, {"verified", "rejected"}, {""}, {TRUE})

CatalogSpec == InitCatalog /\ [][CatalogNext]_vars

\* ---- one order and its stock pass: every kind of line item, db failures
StockItems ==
  ItemSet({"P1"}, {"Red"}, 1..(MaxQty + 1), {1})
    \cup ItemSet({"P1"}, {"Blue", "Green"}, {1}, {1})
    \cup ItemSet({"P2"}, {"Red"}, {1}, {1})

\* one item of any kind, or two that name the tracked colour
StockItemLists ==
  {<<i>> : i \in StockItems}
    \cup [1..2 -> ItemSet({"P1"}, {"Red"}, 1..MaxQty, {1})]

InitStock ==
  /\ products = InitProducts
  /\ \E items \in StockItemLists :
       orders = [o \in OrderIds |->
                   IF o = 1 THEN NewOrder("c1", items, OrderSum(items), 1)
                   ELSE NoOrder]
  /\ nextOrder = 2
  /\ files = {1}
  /\ nextFile = 2
  /\ cart = [c \in Customers |-> <<>>]
  /\ req = [s \in Slots |-> Idle]
  /\ stockRuns = [o \in OrderIds |-> 0]
  /\ applications = NoApplications
  /\ scheduler = SchedulerDown

StockNext ==
  \E s \in SeqSlots : AdminActions(s, {""}, {"verified"}, {""}, BOOLEAN)

StockSpec == InitStock /\ [][StockNext]_vars

\* Every await of a callback returns in the end, with a result or an error.
StockFairness ==
  \A s \in SeqSlots, i \in 1..MaxItems :
    /\ WF_vars(\E dbOk \in BOOLEAN : StockFind(s, i, dbOk))
    /\ WF_vars(\E dbOk \in BOOLEAN : StockWrite(s, i, dbOk))

StockLiveSpec == InitStock /\ [][StockNext]_vars /\ StockFairness

\* ---- a stock pass racing with an admin's edit of the product's colours
\* colour lists that put another colour first, drop the ordered colour, or
\* keep the list as it was
EditedColorLists ==
  LET field(name) == [name |-> name, quantity |-> QuantityField("numeric", MaxQty)]
  IN {<<field("Blue"), field("Red")>>, <<field("Blue")>>,
      <<field("Red"), field("Blue")>>}

EditBodies == {[format |-> "indexed", colors |-> l] : l \in EditedColorLists}

EditRaceNext ==
  \E s \in Slots :
    \/ AdminActions(s, {""}, {"verified", "rejected"}, {""}, {TRUE})
    \/ \E p \in Products, body \in EditBodies :
         ProductUpdate(s, p, TRUE, body, FALSE, TRUE)

EditRaceSpec == InitCatalog /\ [][EditRaceNext]_vars

\* ---- the featured limit: product creates and updates in flight together
CatalogIds == {"P1", "P2", "P3", "P4", "P5"}

OneColorBody ==
  [format |-> "indexed",
   colors |-> <<[name |-> "Red", quantity |-> QuantityField("absent", 0)]>>]

\* a catalogue one short of the limit: three featured products, one that is
\* not featured, and room for one more
InitFeatured ==
  /\ products =
       [p \in CatalogIds |->
          IF p = "P5" THEN NoProduct
          ELSE [exists |-> TRUE, status |-> "active",
                featured |-> p \in {"P1", "P2", "P3"},
                colors |-> parseColors(OneColorBody)]]
  /\ orders = [o \in OrderIds |-> NoOrder]
  /\ nextOrder = 1
  /\ files = {}
  /\ nextFile = 1
  /\ cart = [c \in Customers |-> <<>>]
  /\ req = [s \in Slots |-> Idle]
  /\ stockRuns = [o \in OrderIds |-> 0]
  /\ applications = NoApplications
  /\ scheduler = SchedulerDown

FeaturedActions(s) ==
  \/ \E isFeatured \in BOOLEAN, dbOk \in BOOLEAN :
       ProductCreateCheck(s, TRUE, OneColorBody, isFeatured, dbOk)
  \/ \E dbOk \in BOOLEAN : ProductCreateWrite(s, dbOk)
  \/ \E p \in CatalogIds, isFeatured \in BOOLEAN, dbOk \in BOOLEAN :
       ProductUpdateCheck(s, p, TRUE, OneColorBody, isFeatured, dbOk)
  \/ \E dbOk \in BOOLEAN : ProductUpdateWrite(s, dbOk)

FeaturedNext == \E s \in Slots : FeaturedActions(s)

FeaturedSpec == InitFeatured /\ [][FeaturedNext]_vars

\* ---- job applications, their admin, and the daily cleanup
ApplicationStatusInputs == {"reviewing", "rejected", "bogus"}

CleanupNext ==
  \/ StartServer
  \/ TimerFires
  \/ \E dbOk \in BOOLEAN : CleanupRun(dbOk)
  \/ \E a \in ApplicationIds : ApplicationAges(a)
  \/ \E s \in SeqSlots, dbOk \in BOOLEAN :
       \/ \E a \in ApplicationIds : ApplicationSubmit(s, a, dbOk)
       \/ \E a \in ApplicationIds, status \in ApplicationStatusInputs :
            ApplicationSetStatus(s, a, status, dbOk)
       \/ TestCleanup(s, dbOk)

CleanupSpec == Init /\ [][CleanupNext]_vars

\* ------------------------------------------------------------------ claims
InFlight(s) == ~Free(s)

\* C1: for every order, over any sequence of admin status updates served one
\* after another, reduceProductStock is called at most once.
\* (stated as the claim has it; AdminSpec serves one request at a time)
C1_StockReducedAtMostOnce == \A o \in OrderIds : stockRuns[o] <= 1

\* C2: an update with receiptStatus = verified on an order already read as
\* verified starts no stock callback and leaves every product unchanged, on
\* each step of the request.
RepeatVerify(r) ==
  r.kind = "update" /\ r.receiptStatus = "verified" /\ r.current = "verified"

C2_Step ==
  \A s \in Slots :
    (req'[s] # req[s] /\ (RepeatVerify(req'[s]) \/ (RepeatVerify(req[s]) /\ InFlight(s))))
      => /\ products' = products
         /\ stockRuns' = stockRuns
         /\ req'[s].pc \in {"write", "done"}
         /\ req'[s].tasks = <<>>

C2_RepeatVerifyLeavesStock == [][C2_Step]_vars

C2_Witness ==
  \E s \in Slots :
    /\ RepeatVerify(req[s]) /\ req[s].pc = "done" /\ req[s].resp = 200
    /\ req[s].wrote
    /\ stockRuns[req[s].order] = 1
    /\ \E i \in 1..Len(products["P1"].colors) :
         /\ products["P1"].colors[i].quantity # None
         /\ Val(products["P1"].colors[i].quantity) < MaxQty

\* C3: every tracked colour quantity of every product is at least zero, in
\* every interleaving of the reads and writes of stock passes.
C3_StockNeverNegative ==
  \A p \in Products : \A i \in 1..Len(products[p].colors) :
    products[p].colors[i].quantity # None
      => Val(products[p].colors[i].quantity) >= 0

\* two passes in flight, and a callback about to write the floor: the stored
\* quantity is below what its item asks for
C3_Witness ==
  \E s \in Slots, t \in Slots :
    /\ s # t
    /\ req[s].kind = "update" /\ req[s].pc = "stock"
    /\ req[t].kind = "update" /\ req[t].pc = "stock"
    /\ \E i \in 1..Len(req[s].tasks) :
         LET task == req[s].tasks[i]
             colors == products[task.item.productId].colors
         IN /\ task.pc = "write" /\ task.newQuantity = 0
            /\ colors[task.idx].quantity # None
            /\ Val(colors[task.idx].quantity) > 0
            /\ Val(colors[task.idx].quantity) < task.item.quantity

\* C4: a cancellation that finds the caller's own order with a status other
\* than pending_payment answers 400, goes no further, and the step leaves the
\* orders and the receipt files as they were.
C4_Step ==
  \A s \in Slots :
    (/\ Free(s) /\ req'[s].kind = "cancel"
     /\ \A t \in Slots \ {s} : req'[t] = req[t]
     /\ req'[s].seen # ""
     /\ orders[req'[s].order].exists
     /\ orders[req'[s].order].customer = req'[s].customer
     /\ orders[req'[s].order].status # "pending_payment")
      => /\ req'[s].resp = 400
         /\ req'[s].pc = "done"
         /\ orders' = orders
         /\ files' = files

C4_CancelNonPendingRejected == [][C4_Step]_vars

C4_Witness ==
  \E s \in Slots :
    /\ req[s].kind = "cancel" /\ req[s].pc = "done" /\ req[s].resp = 400
    /\ req[s].seen = "processing"
    /\ orders[req[s].order].exists
    /\ orders[req[s].order].customer = req[s].customer
    /\ orders[req[s].order].status = "processing"
    /\ orders[req[s].order].receipt \in files

\* C5: whenever a finished checkout has persisted an order, the cart of its
\* customer is empty.
C5_CartEmptyAfterOrder ==
  \A s \in Slots :
    (req[s].kind = "place" /\ req[s].pc = "done" /\ req[s].order # 0)
      => cart[req[s].customer] = <<>>

\* C6: whenever a checkout that stored a receipt file has answered anything
\* but 201, that file is gone.
C6_ReceiptRemovedOnFailure ==
  \A s \in Slots :
    (/\ req[s].kind = "place" /\ req[s].pc = "done"
     /\ req[s].file # 0 /\ req[s].resp \in {400, 500})
      => req[s].file \notin files

\* C7: a successful cart add of (product, colour, q) to a cart with at most
\* one line for that pair leaves exactly one such line, whose quantity is the
\* old one (0 when there was none) plus q; every other line, and every other
\* cart, stays as it was.
LinesOf(c, productId, selectedColor) ==
  {i \in 1..Len(c) : c[i].productId = productId /\ c[i].selectedColor = selectedColor}

C7_Step ==
  \A s \in Slots :
    (/\ req'[s].kind = "cartAdd" /\ req'[s].resp = 200
     /\ cart' # cart
     /\ Cardinality(LinesOf(cart[req'[s].customer], req'[s].productId,
                            req'[s].selectedColor)) <= 1)
      => LET r == req'[s]
             old == cart[r.customer]
             new == cart'[r.customer]
             was == LinesOf(old, r.productId, r.selectedColor)
             now == LinesOf(new, r.productId, r.selectedColor)
         IN /\ Cardinality(now) = 1
            /\ \A i \in now :
                 new[i].quantity =
                   r.quantity + (IF was = {} THEN 0
                                 ELSE old[CHOOSE k \in was : TRUE].quantity)
            /\ Len(new) = Len(old) + (IF was = {} THEN 1 ELSE 0)
            /\ \A i \in (1..Len(old)) \ was : new[i] = old[i]
            /\ \A c \in Customers \ {r.customer} : cart'[c] = cart[c]

C7_SameLineAddedTwiceMerges == [][C7_Step]_vars

\* the second add of a pair has merged into the one line, beside another line
C7_Witness ==
  \E s \in Slots :
    LET r == req[s]
    IN /\ r.kind = "cartAdd" /\ r.resp = 200
       /\ Len(cart[r.customer]) = 2
       /\ \E i \in 1..2 :
            /\ cart[r.customer][i].productId = r.productId
            /\ cart[r.customer][i].selectedColor = r.selectedColor
            /\ cart[r.customer][i].quantity > r.quantity
            /\ cart[r.customer][3 - i].selectedColor # r.selectedColor

\* C8: once the status write of an update has resolved, the only response is
\* 200, also when a stock callback has failed; and no step of the stock pass
\* touches the orders.
C8_State ==
  \A s \in Slots :
    (req[s].kind = "update" /\ req[s].wrote)
      => /\ req[s].resp \in {0, 200}
         /\ (req[s].pc = "done" \/ AnyFailed(req[s].tasks)) => req[s].resp = 200

C8_Step ==
  \A s \in Slots :
    (req[s].kind = "update" /\ req[s].pc = "stock" /\ req'[s] # req[s]
     /\ \A t \in Slots \ {s} : req'[t] = req[t])
      => orders' = orders

C8_StockFailureNotEscalated == []C8_State /\ [][C8_Step]_vars

C8_Witness ==
  \E s \in Slots :
    /\ req[s].kind = "update" /\ req[s].wrote
    /\ AnyFailed(req[s].tasks)
    /\ req[s].resp = 200
    /\ orders[req[s].order].receiptStatus = "verified"

\* C9: the stored total of every order is the sum of price x quantity over
\* its items.
C9_TotalIsSumOfLines ==
  \A o \in OrderIds : orders[o].exists => orders[o].totalAmount = OrderSum(orders[o].items)

\* C10: a checkout whose items are unparsable, missing or empty, or that has
\* no receipt file, answers 400, creates no order and leaves every cart.
NothingToOrder(r) ==
  \/ r.itemsKind \in {"unparsable", "falsy"}
  \/ (r.itemsKind = "list" /\ r.nItems = 0)
  \/ r.file = 0

C10_Step ==
  \A s \in Slots :
    (req'[s].kind = "place" /\ NothingToOrder(req'[s])
     /\ \A t \in Slots \ {s} : req'[t] = req[t])
      => /\ req'[s].resp = 400
         /\ req'[s].order = 0
         /\ orders' = orders
         /\ nextOrder' = nextOrder
         /\ cart' = cart

C10_EmptyCheckoutRejected == [][C10_Step]_vars

\* no receipt, two items, a cart that is not empty
C10_Witness ==
  \E s \in Slots :
    /\ req[s].kind = "place" /\ req[s].resp = 400
    /\ req[s].file = 0 /\ req[s].itemsKind = "list" /\ req[s].nItems = MaxItems
    /\ cart[req[s].customer] # <<>>

\* C11: a cancellation whose findByIdAndDelete has removed the order answers
\* 200, also when the removal of the receipt file fails.
C11_Step ==
  \A s \in Slots :
    (/\ req[s].kind = "cancel" /\ req[s].pc = "delete"
     /\ orders[req[s].order].exists
     /\ ~orders'[req[s].order].exists)
      => /\ req'[s].pc = "done"
         /\ req'[s].resp = 200

C11_CancelSurvivesUnlinkFailure == [][C11_Step]_vars

\* C12: an update whose status or receiptStatus is supplied and is not in its
\* enumeration answers 400 at once, and the step leaves orders, products and
\* the count of stock passes as they were.
BadEnum(r) ==
  \/ (r.status # "" /\ r.status \notin validStatuses)
  \/ (r.receiptStatus # "" /\ r.receiptStatus \notin validReceiptStatuses)

C12_State ==
  \A s \in Slots :
    (req[s].kind = "update" /\ BadEnum(req[s]))
      => /\ req[s].pc = "done" /\ req[s].resp = 400
         /\ ~req[s].wrote /\ req[s].tasks = <<>>

C12_Step ==
  \A s \in Slots :
    (/\ Free(s) /\ req'[s].kind = "update" /\ BadEnum(req'[s])
     /\ \A t \in Slots \ {s} : req'[t] = req[t])
      => /\ orders' = orders
         /\ products' = products
         /\ stockRuns' = stockRuns

C12_InvalidEnumRejected == []C12_State /\ [][C12_Step]_vars

\* a valid receiptStatus = verified beside an invalid status, on a stored order
\* whose receipt is still pending
C12_Witness ==
  \E s \in Slots :
    /\ req[s].kind = "update" /\ req[s].resp = 400
    /\ req[s].status = "bogus" /\ req[s].receiptStatus = "verified"
    /\ orders[req[s].order].exists
    /\ orders[req[s].order].receiptStatus = "pending"
    /\ stockRuns[req[s].order] = 0

\* C18: a cancellation by a customer other than the owner of the order
\* answers 404 and changes neither orders nor files; and whenever an order
\* disappears, the step is the delete of a cancellation by its owner.
C18_Step ==
  /\ \A s \in Slots :
       (/\ Free(s) /\ req'[s].kind = "cancel" /\ req'[s].seen # ""
        /\ \A t \in Slots \ {s} : req'[t] = req[t]
        /\ orders[req'[s].order].exists
        /\ orders[req'[s].order].customer # req'[s].customer)
         => /\ req'[s].resp = 404 /\ req'[s].pc = "done"
            /\ orders' = orders /\ files' = files
  /\ \A o \in OrderIds :
       (orders[o].exists /\ ~orders'[o].exists)
         => \E s \in Slots :
              /\ req[s].kind = "cancel" /\ req[s].pc = "delete"
              /\ req[s].order = o /\ req[s].customer = orders[o].customer
              /\ req'[s].pc = "done"

C18_CancelByOwnerOnly == [][C18_Step]_vars

\* another customer's pending order, asked for and still there with its receipt
C18_Witness ==
  \E s \in Slots :
    /\ req[s].kind = "cancel" /\ req[s].pc = "done" /\ req[s].resp = 404
    /\ req[s].seen = "pending_payment"
    /\ orders[req[s].order].exists
    /\ orders[req[s].order].customer # req[s].customer
    /\ orders[req[s].order].status = "pending_payment"
    /\ orders[req[s].order].receipt \in files

\* C20: the write of an update leaves each of status, receiptStatus and
\* adminNotes that the request does not supply as it was, sets the supplied
\* ones when it writes, never touches customer, items, totalAmount or receipt,
\* and leaves every other order alone.
C20_Step ==
  \A s \in Slots :
    (/\ req[s].kind = "update" /\ req[s].pc = "write" /\ req'[s] # req[s]
     /\ \A t \in Slots \ {s} : req'[t] = req[t])
      => LET r == req[s]
             old == orders[r.order]
             new == orders'[r.order]
         IN /\ r.status = "" => new.status = old.status
            /\ r.receiptStatus = "" => new.receiptStatus = old.receiptStatus
            /\ r.adminNotes = "" => new.adminNotes = old.adminNotes
            /\ req'[s].wrote =>
                 /\ r.status # "" => new.status = r.status
                 /\ r.receiptStatus # "" => new.receiptStatus = r.receiptStatus
                 /\ r.adminNotes # "" => new.adminNotes = r.adminNotes
            /\ new.exists = old.exists
            /\ new.customer = old.customer
            /\ new.items = old.items
            /\ new.totalAmount = old.totalAmount
            /\ new.receipt = old.receipt
            /\ \A o \in OrderIds \ {r.order} : orders'[o] = orders[o]

C20_UpdateIsPartial == [][C20_Step]_vars

\* the last update supplied no receiptStatus, and the order keeps the
\* verified receipt, the status and the notes of earlier updates
C20_Witness ==
  \E s \in Slots :
    /\ req[s].kind = "update" /\ req[s].pc = "done" /\ req[s].wrote
    /\ req[s].receiptStatus = ""
    /\ orders[req[s].order].receiptStatus = "verified"
    /\ orders[req[s].order].status = "processing"
    /\ orders[req[s].order].adminNotes = "checked"

\* C19: whenever an order is deleted, its stored status at that moment is
\* pending_payment, in every interleaving of a cancellation with admin
\* updates of the same order.
C19_Step ==
  \A o \in OrderIds :
    (orders[o].exists /\ ~orders'[o].exists) => orders[o].status = "pending_payment"

C19_DeletedOnlyWhilePending == [][C19_Step]_vars

\* C13: every cart holds at most one line for each (product, colour) pair.
C13_OneLinePerPair ==
  \A c \in Customers : \A i \in 1..Len(cart[c]), j \in 1..Len(cart[c]) :
    (cart[c][i].productId = cart[c][j].productId
     /\ cart[c][i].selectedColor = cart[c][j].selectedColor) => i = j

C16_Step ==
  \A s \in Slots :
    (/\ req'[s].kind = "cartAdd"
     /\ (req'[s] # req[s] \/ cart' # cart)
     /\ ~req'[s].threw
     /\ \/ req'[s].selectedColor = ""
        \/ ~req'[s].given
        \/ req'[s].quantity <= 0)
      => /\ req'[s].resp = 400
         /\ cart' = cart

C16_AddRejectsBadQuantity == [][C16_Step]_vars

\* C17: a cart update that names a line of the customer's cart and supplies a
\* quantity q is not refused (200 unless a database call fails), sets that
\* line's quantity to max(1, q) and leaves every other line as it was.
C17_Step ==
  \A s \in Slots :
    (/\ req'[s].kind = "cartUpdate"
     /\ (req'[s] # req[s] \/ cart' # cart)
     /\ req'[s].quantityIn # None
     /\ FindLineById(cart[req'[s].customer], req'[s].itemId) # 0)
      => LET r == req'[s]
             old == cart[r.customer]
             new == cart'[r.customer]
             i == FindLineById(old, r.itemId)
             q == Val(r.quantityIn)
         IN /\ r.resp \in {200, 500}
            /\ r.dbOk => r.resp = 200
            /\ r.resp = 500 => cart' = cart
            /\ r.resp = 200 =>
                 /\ Len(new) = Len(old)
                 /\ new[i].quantity = (IF q >= 1 THEN q ELSE 1)
                 /\ new[i].id = old[i].id /\ new[i].productId = old[i].productId
                 /\ \A k \in (1..Len(old)) \ {i} : new[k] = old[k]
                 /\ \A c \in Customers \ {r.customer} : cart'[c] = cart[c]

C17_UpdateClampsQuantity == [][C17_Step]_vars

\* a quantity below 1 was clamped to 1, beside another line that kept more
C17_Witness ==
  \E s \in Slots :
    LET r == req[s]
    IN /\ r.kind = "cartUpdate" /\ r.resp = 200
       /\ r.quantityIn # None /\ Val(r.quantityIn) < 1
       /\ Len(cart[r.customer]) = 2
       /\ \E i \in 1..2 :
            /\ cart[r.customer][i].id = r.itemId
            /\ cart[r.customer][i].quantity = 1
            /\ cart[r.customer][3 - i].quantity > 1

\* C14: the stock quantity of every colour variant of every stored product is
\* null or a number that is not negative.
C14_StockNullOrNonNegative ==
  \A p \in Products :
    products[p].exists =>
      \A i \in 1..Len(products[p].colors) :
        \A n \in products[p].colors[i].quantity : n >= 0

\* ---- the stock pass, item by item
\* the first pass of a request has run to its end and no callback failed
PassDone(r) ==
  /\ r.kind = "update" /\ r.pc = "done" /\ r.wrote
  /\ Len(r.tasks) > 0
  /\ \A i \in 1..Len(r.tasks) : r.tasks[i].pc = "done"
  /\ stockRuns[r.order] = 1

\* the item names a product that exists, a colour it has, a tracked quantity
Adjustable(item, i) ==
  /\ InitProducts[item.productId].exists
  /\ i \in 1..Len(InitProducts[item.productId].colors)
  /\ InitProducts[item.productId].colors[i].name = item.selectedColor
  /\ InitProducts[item.productId].colors[i].quantity # None

\* the catalogue with one variant's quantity lowered by n, not below zero
Lowered(item, i) ==
  LET old == Val(InitProducts[item.productId].colors[i].quantity)
  IN [InitProducts EXCEPT ![item.productId].colors[i].quantity =
        Some(IF old - item.quantity > 0 THEN old - item.quantity ELSE 0)]

\* C21: a pass over one line item lowers the quantity of the variant the item
\* names to max(0, old - item quantity) when the product exists, has that
\* variant and tracks its quantity; otherwise the item is skipped: nothing is
\* written, nothing changes, and the request is answered 200.
C21_OneItemPass ==
  \A s \in SeqSlots :
    LET r == req[s]
    IN (r.kind = "update" /\ Len(r.tasks) = 1 /\ stockRuns[r.order] = 1) =>
         LET item == r.tasks[1].item
             hit == {i \in 1..MaxColors : Adjustable(item, i)}
         IN /\ hit = {} =>
                 /\ products = InitProducts
                 /\ r.tasks[1].pc # "write"
            /\ PassDone(r) =>
                 /\ r.resp = 200
                 /\ \A i \in hit : products = Lowered(item, i)

\* a pass over an item that asks for more than the stock has ended at zero
C21_Witness ==
  \E s \in SeqSlots :
    /\ PassDone(req[s])
    /\ Len(req[s].tasks) = 1
    /\ req[s].tasks[1].item.selectedColor = "Red"
    /\ req[s].tasks[1].item.quantity > MaxQty
    /\ products["P1"].colors[1].quantity = Some(0)

\* C22: once a callback of a pass has failed, every other callback of that
\* pass that is still at an await gets to its own end.
C22_OthersStillRun ==
  \A s \in SeqSlots, i \in 1..MaxItems :
    (/\ req[s].kind = "update" /\ req[s].pc = "stock"
     /\ i <= Len(req[s].tasks)
     /\ AnyFailed(req[s].tasks)
     /\ req[s].tasks[i].pc \in {"find", "write"})
      ~> (/\ req[s].kind = "update"
          /\ i <= Len(req[s].tasks)
          /\ Terminal(req[s].tasks[i]))

\* the first item failed, the second was applied all the same
C22_Witness ==
  \E s \in SeqSlots :
    /\ req[s].kind = "update" /\ req[s].pc = "done" /\ req[s].resp = 200
    /\ Len(req[s].tasks) = 2
    /\ req[s].tasks[1].pc = "failed"
    /\ req[s].tasks[2].pc = "done"
    /\ stockRuns[req[s].order] = 1
    /\ products["P1"].colors[1].quantity =
         Some(MaxQty - req[s].tasks[2].item.quantity)

\* the quantities a pass's items ask of one product and colour, added up
RECURSIVE AskedTo(_, _, _, _)
AskedTo(tasks, productId, name, n) ==
  IF n = 0 THEN 0
  ELSE (IF tasks[n].item.productId = productId /\ tasks[n].item.selectedColor = name
        THEN tasks[n].item.quantity ELSE 0)
       + AskedTo(tasks, productId, name, n - 1)

\* C25: after one pass of an order that ended without error, every tracked
\* variant stands at max(0, quantity before - the sum its items asked of it).
C25_PassSubtractsSum ==
  \A s \in SeqSlots :
    PassDone(req[s]) =>
      \A p \in Products :
        \A i \in 1..Len(InitProducts[p].colors) :
          LET c == InitProducts[p].colors[i]
              asked == AskedTo(req[s].tasks, p, c.name, Len(req[s].tasks))
          IN c.quantity # None =>
               products[p].colors[i].quantity =
                 Some(IF Val(c.quantity) - asked > 0
                      THEN Val(c.quantity) - asked ELSE 0)

\* ---- passes that race
\* C23: a request runs the stock workflow exactly when it asked for verified
\* and the receipt status it read was not verified, whatever the stored status
\* has become by the time it writes; so two requests for the same order that
\* both read the old status both run it, and the items are taken off twice.
C23_GuardUsesStatusRead ==
  \A s \in Slots :
    (req[s].kind = "update" /\ req[s].wrote) =>
      (req[s].tasks # <<>> <=>
         (req[s].receiptStatus = "verified" /\ req[s].current # "verified"))

\* both requests verified order 1 after reading "pending", both passes are
\* over and the stock is down by twice the quantity ordered
C23_Witness ==
  /\ \A s \in Slots :
       /\ req[s].kind = "update" /\ req[s].pc = "done" /\ req[s].wrote
       /\ req[s].order = 1
       /\ req[s].current = "pending"
       /\ req[s].tasks # <<>>
  /\ stockRuns[1] = 2 /\ stockRuns[2] = 0
  /\ orders[1].exists
  /\ products["P1"].colors[1].quantity =
       Some(MaxQty - 2 * orders[1].items[1].quantity)

\* one pass has run for each of the two orders and none is under way
BothPassesOver ==
  /\ \A o \in OrderIds : orders[o].exists /\ stockRuns[o] = 1
  /\ \A s \in Slots : req[s].pc # "stock"

Floor(n) == IF n > 0 THEN n ELSE 0

\* C24: after one pass for each of two orders on the same colour, the stock
\* stands at the initial quantity less both quantities, or less only one of
\* them (the other decrement lost), floored at zero: never anything else.
C24_AtMostOneDecrementLost ==
  BothPassesOver =>
    LET q1 == orders[1].items[1].quantity
        q2 == orders[2].items[1].quantity
    IN products["P1"].colors[1].quantity \in
         {Some(Floor(MaxQty - q1 - q2)), Some(Floor(MaxQty - q1)),
          Some(Floor(MaxQty - q2))}

\* the two passes ran side by side and the stock ended above
\* max(0, initial - q1 - q2)
C24_Witness ==
  /\ BothPassesOver
  /\ \A s \in Slots : req[s].kind = "update" /\ req[s].tasks # <<>>
  /\ req[1].order # req[2].order
  /\ Val(products["P1"].colors[1].quantity) >
       Floor(MaxQty - orders[1].items[1].quantity - orders[2].items[1].quantity)

\* ---- receipts and cancellations
\* C27: the receipt of every stored order is a file that is still in the
\* receipts directory.
C27_ReceiptFileExists ==
  \A o \in OrderIds : orders[o].exists => orders[o].receipt \in files

\* C28: no step deletes an order for which the stock workflow has run and
\* taken stock off.
C28_Step ==
  \A o \in OrderIds :
    (orders[o].exists /\ ~orders'[o].exists) =>
      ~(stockRuns[o] > 0 /\ products # InitProducts)

C28_NoCancelAfterStockPass == [][C28_Step]_vars

\* ---- the positional write
\* C26: the write of a stock callback changes the quantity of no variant but
\* the one that bears the item's selected colour, also when the product's
\* colour list was edited between the callback's read and its write.
C26_Step ==
  \A s \in Slots, i \in 1..MaxItems :
    (/\ req[s].kind = "update" /\ req[s].pc = "stock"
     /\ i <= Len(req[s].tasks)
     /\ req[s].tasks[i].pc = "write"
     /\ req'[s].tasks[i].pc # "write") =>
      \A p \in Products :
        \A k \in 1..Len(products'[p].colors) :
          (\/ k > Len(products[p].colors)
           \/ products'[p].colors[k].quantity # products[p].colors[k].quantity) =>
            /\ p = req[s].tasks[i].item.productId
            /\ products'[p].colors[k].name = req[s].tasks[i].item.selectedColor

C26_WriteHitsSelectedColor == [][C26_Step]_vars

\* ---- the featured limit
\* C29: at most four products are featured, whatever product creates and
\* updates have been served and however they were interleaved.
C29_AtMostFourFeatured ==
  Cardinality({p \in DOMAIN products :
                 products[p].exists /\ products[p].featured}) <= 4

\* ---- the daily cleanup
\* C30: once scheduleDailyCleanup has been started, exactly one timer is
\* pending whenever no cleanup run is under way, so that every run is followed
\* by the next one, also after a run that failed on a database error.
C30_OnePendingTimer ==
  scheduler.started => (scheduler.timers = 1 \/ scheduler.pc = "running")
====
